---- MODULE Spec2Model ----
(***************************************************************************)
(* path-sanitizer: sanitize(pathToSanitize, options).                      *)
(*                                                                         *)
(* A JavaScript string is a sequence of one-character strings, so that the *)
(* regular expressions of the source act on characters.  path.normalize    *)
(* and path.join are Node's POSIX implementations (the tests expect '/'    *)
(* in what sanitize returns).                                              *)
(***************************************************************************)
EXTENDS Naturals, Sequences, FiniteSets

VARIABLES payload, pathToSanitize, options, DEFAULT_OPTIONS, pc, returned,
          error, calls, joined

vars == <<payload, pathToSanitize, options, DEFAULT_OPTIONS, pc, returned,
          error, calls, joined>>

---------------------------------------------------------------------------
(* Bounds of the explored inputs.                                          *)

\* longest payload of free tokens
MaxLen == 5
\* most parent-directory markers chained in front of a safe path
MaxK == 2
\* most calls of sanitize a caller makes on one value (sanitize(sanitize(s)))
MaxCalls == 2

---------------------------------------------------------------------------
(* JavaScript values.                                                      *)

Undefined == [type |-> "undefined"]
Null == [type |-> "null"]
Symbol == [type |-> "symbol"]
Str(s) == [type |-> "string", chars |-> s]
Num(n) == [type |-> "number", n |-> n]
Arr(items) == [type |-> "array", items |-> items]
\* a global regular expression, by the finite language of equal-length
\* strings it matches
RegExp(lang) == [type |-> "regexp", lang |-> lang]
Obj(d, p, n) == [type |-> "object", decode |-> d,
                 parentDirectoryRegEx |-> p, notAllowedRegEx |-> n]

\* !v is false
Truthy(v) ==
  CASE v.type = "undefined" -> FALSE
    [] v.type = "null" -> FALSE
    [] v.type = "string" -> v.chars # <<>>
    [] v.type = "number" -> v.n # 0
    [] OTHER -> TRUE

\* typeof v
typeof(v) ==
  CASE v.type \in {"null", "array", "regexp", "object"} -> "object"
    [] OTHER -> v.type

Sep == {"/", "\\"}

\* the grave accent, U+0060, which a TLA+ string cannot hold
GraveAccent == "U+0060"

\* characters of the default notAllowedRegEx
NotAllowedChars ==
  {":", "$", "!", "'", "\"", "@", "+", GraveAccent, "|", "="}

DefaultDecode ==
  Arr(<< [regex |-> RegExp({<<"%", "2", "e">>}), replacement |-> <<".">>],
         [regex |-> RegExp({<<"%", "2", "f">>}), replacement |-> <<"/">>],
         [regex |-> RegExp({<<"%", "5", "c">>}), replacement |-> <<"\\">>] >>)

DefaultParentDirectoryRegEx ==
  RegExp({<<a, ".", ".", b>> : a \in Sep, b \in Sep})

\* the default notAllowedRegEx with the alternative for '=' left out
NotAllowedRegExWithoutEquals == RegExp({<<c>> : c \in NotAllowedChars \ {"="}})

DefaultNotAllowedRegEx == RegExp({<<c>> : c \in NotAllowedChars})

DefaultOptionsValue ==
  Obj(DefaultDecode, DefaultParentDirectoryRegEx, DefaultNotAllowedRegEx)

---------------------------------------------------------------------------
(* Strings.                                                                *)

RECURSIVE Flatten(_)
Flatten(ss) == IF ss = <<>> THEN <<>> ELSE Head(ss) \o Flatten(Tail(ss))

\* decimal digits of a natural number
Digit(d) == CASE d = 0 -> "0" [] d = 1 -> "1" [] d = 2 -> "2" [] d = 3 -> "3"
              [] d = 4 -> "4" [] d = 5 -> "5" [] d = 6 -> "6" [] d = 7 -> "7"
              [] d = 8 -> "8" [] d = 9 -> "9"

RECURSIVE Digits(_)
Digits(n) == IF n < 10 THEN <<Digit(n)>>
             ELSE Digits(n \div 10) \o <<Digit(n % 10)>>

\* the length of the strings a regular expression matches
MatchLen(regex) == Len(CHOOSE m \in regex.lang : TRUE)

\* String.prototype.replace with a global regular expression: matches are
\* found left to right and do not overlap; the replaced text is not rescanned
RECURSIVE replace(_, _, _)
replace(s, regex, replacement) ==
  IF s = <<>> \/ regex.lang = {} THEN s
  ELSE LET n == MatchLen(regex) IN
       IF Len(s) >= n /\ SubSeq(s, 1, n) \in regex.lang
       THEN replacement \o replace(SubSeq(s, n + 1, Len(s)), regex, replacement)
       ELSE <<Head(s)>> \o replace(Tail(s), regex, replacement)

\* options.decode.forEach(decode => sanitizedPath = sanitizedPath.replace(...))
RECURSIVE Decode(_, _)
Decode(s, rules) ==
  IF rules = <<>> THEN s
  ELSE Decode(replace(s, Head(rules).regex, Head(rules).replacement), Tail(rules))

\* the first replace with /^[\/\\]/: nothing is put before a path that
\* starts with no separator
FirstSlashOnlyReplaced(s) ==
  IF s # <<>> /\ Head(s) \in Sep THEN <<"/">> \o Tail(s) ELSE s

\* sanitizedPath.replace(/^[\/\\]?/, '/')
FirstSlash(s) ==
  IF s # <<>> /\ Head(s) \in Sep THEN <<"/">> \o Tail(s) ELSE <<"/">> \o s

\* sanitizedPath.replace(/[\/\\]+/g, '/')
RECURSIVE CollapseSlashes(_)
CollapseSlashes(s) ==
  IF s = <<>> THEN <<>>
  ELSE IF Head(s) \in Sep
       THEN IF Len(s) >= 2 /\ s[2] \in Sep
            THEN CollapseSlashes(Tail(s))
            ELSE <<"/">> \o CollapseSlashes(Tail(s))
       ELSE <<Head(s)>> \o CollapseSlashes(Tail(s))

\* the segments of a POSIX path: the text between '/' characters
RECURSIVE Segments(_, _)
Segments(s, cur) ==
  IF s = <<>> THEN <<cur>>
  ELSE IF Head(s) = "/" THEN <<cur>> \o Segments(Tail(s), <<>>)
       ELSE Segments(Tail(s), Append(cur, Head(s)))

\* path.posix normalizeString: '' and '.' are dropped, '..' removes the
\* segment before it, or is kept when there is none and allowAboveRoot
RECURSIVE normalizeString(_, _, _)
normalizeString(segs, res, allowAboveRoot) ==
  IF segs = <<>> THEN res
  ELSE LET g == Head(segs) IN
       IF g = <<>> \/ g = <<".">>
       THEN normalizeString(Tail(segs), res, allowAboveRoot)
       ELSE IF g = <<".", ".">>
            THEN IF res # <<>> /\ res[Len(res)] # <<".", ".">>
                 THEN normalizeString(Tail(segs), SubSeq(res, 1, Len(res) - 1),
                                      allowAboveRoot)
                 ELSE IF allowAboveRoot
                      THEN normalizeString(Tail(segs), Append(res, g),
                                           allowAboveRoot)
                      ELSE normalizeString(Tail(segs), res, allowAboveRoot)
            ELSE normalizeString(Tail(segs), Append(res, g), allowAboveRoot)

RECURSIVE JoinSegments(_)
JoinSegments(segs) ==
  IF segs = <<>> THEN <<>>
  ELSE IF Len(segs) = 1 THEN Head(segs)
       ELSE Head(segs) \o <<"/">> \o JoinSegments(Tail(segs))

\* path.normalize (POSIX)
normalize(s) ==
  IF s = <<>> THEN <<".">>
  ELSE LET isAbsolute == Head(s) = "/"
           trailingSeparator == s[Len(s)] = "/"
           p == JoinSegments(normalizeString(Segments(s, <<>>), <<>>,
                                             ~isAbsolute))
       IN IF p = <<>>
          THEN IF isAbsolute THEN <<"/">>
               ELSE IF trailingSeparator THEN <<".", "/">> ELSE <<".">>
          ELSE (IF isAbsolute THEN <<"/">> ELSE <<>>) \o p
               \o (IF trailingSeparator THEN <<"/">> ELSE <<>>)

\* path.join (POSIX) of two arguments: empty arguments are skipped
join(a, b) ==
  LET j == IF a = <<>> THEN b
           ELSE IF b = <<>> THEN a ELSE a \o <<"/">> \o b
  IN IF j = <<>> THEN <<".">> ELSE normalize(j)

\* while (endsWith('/') || endsWith('\\')) slice(0, -1)
RECURSIVE TrimEnd(_)
TrimEnd(s) ==
  IF s # <<>> /\ s[Len(s)] \in Sep THEN TrimEnd(SubSeq(s, 1, Len(s) - 1)) ELSE s

\* while (startsWith('/') || startsWith('\\')) slice(1)
RECURSIVE TrimStart(_)
TrimStart(s) == IF s # <<>> /\ Head(s) \in Sep THEN TrimStart(Tail(s)) ELSE s

\* the body of sanitize on a string, with the three fields of options set
SanitizedPath(s, opts) ==
  LET decoded == Decode(s, opts.decode.items)
      slashed == FirstSlash(decoded)
      noParent == replace(slashed, opts.parentDirectoryRegEx, <<"/">>)
      collapsed == CollapseSlashes(noParent)
      normalized == normalize(collapsed)
      trimmed == TrimStart(TrimEnd(normalized))
      validated == join(<<>>, trimmed)
  IN replace(validated, opts.notAllowedRegEx, <<>>)

\* the three defaulting assignments on the options object
Defaulted(o, defaults) ==
  [o EXCEPT !.decode = IF Truthy(@) THEN @ ELSE defaults.decode,
            !.parentDirectoryRegEx =
                IF Truthy(@) THEN @ ELSE defaults.parentDirectoryRegEx,
            !.notAllowedRegEx =
                IF Truthy(@) THEN @ ELSE defaults.notAllowedRegEx]

\* the template literal on a value that is not a string throws for a Symbol
CanStringify(v) == v.type # "symbol"

\* the text of a value: a string is itself, a number is its decimal digits
Stringify(v) == IF v.type = "string" THEN v.chars ELSE Digits(v.n)

---------------------------------------------------------------------------
(* The values the callers pass.                                            *)

Pct2e == <<"%", "2", "e">>
Pct2f == <<"%", "2", "f">>
Pct5c == <<"%", "5", "c">>

\* the alphabet of the free payloads
FreeTokens == {<<".">>, <<"/">>, <<"\\">>, <<"=">>, Pct2e, Pct2f, Pct5c, <<"a">>}

RECURSIVE SeqsUpTo(_, _)
SeqsUpTo(S, n) ==
  IF n = 0 THEN {<<>>}
  ELSE LET shorter == SeqsUpTo(S, n - 1)
       IN shorter \cup {Append(q, x) : q \in {r \in shorter : Len(r) = n - 1},
                                        x \in S}

\* a parent-directory segment, plain or percent-encoded
Dots == {<<".", ".">>, Pct2e \o Pct2e, <<".">> \o Pct2e}

\* runs of separators, plain or percent-encoded, in a mix
SepRuns ==
  {<<"/">>, <<"\\">>, Pct2f, Pct5c, <<"/", "/">>, Pct5c \o <<"/", "\\">>}

\* a parent-directory segment followed by a run of separators
CleanMarkers == {d \o r : d \in Dots, r \in SepRuns}

\* a parent-directory segment glued to its separator by a disallowed character
Glued == <<".", ".", "=">> \o Pct5c
GluedMarkers == {Glued, Pct2e \o Pct2e \o <<"=">> \o Pct5c}

Markers == CleanMarkers \cup GluedMarkers

\* safe relative paths: the segments, and the separator runs between them
SafePaths ==
  { [segs |-> << <<"a">> >>, seps |-> <<>>],
    [segs |-> << <<".", ".", ".">> >>, seps |-> <<>>],
    [segs |-> << <<"e", "t", "c">>, <<"p", ".", "w">> >>, seps |-> << <<"/">> >>],
    [segs |-> << <<"a", "#">>, <<"^", "b">> >>, seps |-> << <<"\\", "\\">> >>],
    [segs |-> << <<".", ".", "a">>, <<"a">>, <<"b", ".">> >>,
     seps |-> << Pct2f, <<"/", "\\">> >>] }

RECURSIVE Interleave(_, _)
Interleave(segs, seps) ==
  IF Len(segs) <= 1 THEN Flatten(segs)
  ELSE Head(segs) \o Head(seps) \o Interleave(Tail(segs), Tail(seps))

\* the text of a safe path as the caller writes it
Text(sp) == Interleave(sp.segs, sp.seps)

\* the same path with single '/' separators
Canonical(sp) == JoinSegments(sp.segs)

ChainPayloads ==
  {Append(ms, Text(sp)) : ms \in SeqsUpTo(Markers, MaxK), sp \in SafePaths}

\* the decode rule of the test 'allows overriding decode rules via options'
CustomDecode == Arr(<< [regex |-> RegExp({Pct2e}), replacement |-> <<>>] >>)

CustomParentDirectoryRegEx == RegExp({<<"/", ".", ".", "/">>})

CustomNotAllowedRegEx == RegExp({<<":">>})

OptionObjects ==
  {Obj(d, p, n) :
     d \in {Undefined, DefaultDecode, CustomDecode, Str(<<"x">>)},
     p \in {Undefined, DefaultParentDirectoryRegEx, CustomParentDirectoryRegEx},
     n \in {Undefined, DefaultNotAllowedRegEx, CustomNotAllowedRegEx}}

\* 'invalid options' of the test 'throws if options are not objects'
InvalidOptions == Str(<<"i", "n", "v", "a", "l", "i", "d">>)

OptionValues ==
  {Undefined, Null, Str(<<>>), Num(0), Num(1), InvalidOptions} \cup OptionObjects

\* the values of the examples and tests passed with explicit options
ExamplePaths ==
  { Str(<<>>),
    Num(500),
    Symbol,
    Str(<<"/", ":", "1", "1", "^", "^">>),
    Str(<<".", ".", "/", "p", "/", "f">>),
    Str(Pct2e \o Pct2f \o <<"p">> \o Pct2e \o <<"t">>),
    Str(<<"a", "\\", ".", ".", "/", "h", "$", "i">>) }

\* APP_DIR of the tests
APP_DIR == <<"/", "v", "a", "r", "/", "a", "p", "p", "-", "d", "i", "r">>

---------------------------------------------------------------------------
(* The state machine: a caller holds a payload and an options value, calls *)
(* sanitize, may pass what it returned to sanitize again, and joins what   *)
(* it returned onto APP_DIR.                                               *)

Init ==
  /\ \/ /\ payload \in SeqsUpTo(FreeTokens, MaxLen)
        /\ pathToSanitize = Str(Flatten(payload))
        /\ options = Undefined
     \/ /\ payload \in ChainPayloads
        /\ pathToSanitize = Str(Flatten(payload))
        /\ options = Undefined
     \/ /\ pathToSanitize \in ExamplePaths
        /\ payload = <<>>
        /\ options \in OptionValues
  /\ DEFAULT_OPTIONS = DefaultOptionsValue
  /\ pc = "ready"
  /\ returned = Undefined
  /\ error = "none"
  /\ calls = 0
  /\ joined = <<>>

\* function sanitize (pathToSanitize, options = DEFAULT_OPTIONS)
Sanitize ==
  /\ pc = "ready"
  /\ calls' = calls + 1
  /\ UNCHANGED <<payload, pathToSanitize, joined>>
  /\ LET useDefault == ~Truthy(options)
         opts == IF useDefault THEN DEFAULT_OPTIONS ELSE options
     IN IF typeof(opts) # "object"
        THEN /\ pc' = "thrown"
             /\ error' = "Error: options must be an object"
             /\ UNCHANGED <<options, DEFAULT_OPTIONS, returned>>
        ELSE LET filled == Defaulted(opts, DEFAULT_OPTIONS)
             IN /\ options' = IF useDefault THEN options ELSE filled
                /\ DEFAULT_OPTIONS' = IF useDefault THEN filled ELSE DEFAULT_OPTIONS
                /\ IF ~CanStringify(pathToSanitize)
                   THEN /\ pc' = "thrown"
                        /\ error' = "TypeError: Cannot convert a Symbol value to a string"
                        /\ UNCHANGED returned
                   ELSE IF filled.decode.type # "array"
                        THEN /\ pc' = "thrown"
                             /\ error' = "TypeError: options.decode.forEach is not a function"
                             /\ UNCHANGED returned
                        ELSE /\ pc' = "returned"
                             /\ returned' = Str(SanitizedPath(Stringify(pathToSanitize), filled))
                             /\ UNCHANGED error

\* sanitize(sanitize(x)): the caller passes what sanitize returned
Resubmit ==
  /\ pc = "returned"
  /\ calls < MaxCalls
  /\ pathToSanitize' = returned
  /\ pc' = "ready"
  /\ UNCHANGED <<payload, options, DEFAULT_OPTIONS, returned, error, calls, joined>>

\* path.join(APP_DIR, sanitize(myPath))
Join ==
  /\ pc = "returned"
  /\ joined' = join(APP_DIR, returned.chars)
  /\ pc' = "joined"
  /\ UNCHANGED <<payload, pathToSanitize, options, DEFAULT_OPTIONS, returned,
                 error, calls>>

Next == Sanitize \/ Resubmit \/ Join

Spec == Init /\ [][Next]_vars

---------------------------------------------------------------------------
(* The claims.                                                             *)

\* sanitize ran with the default configuration: no options, a falsy options
\* value, or an options object whose three fields are the defaults
DefaultConfiguration == ~Truthy(options) \/ options = DefaultOptionsValue

\* sanitize returned, under the default configuration
ReturnedByDefault ==
  pc = "returned" /\ returned.type = "string" /\ DefaultConfiguration

\* path is base itself or lies below it
Within(base, path) ==
  \/ path = base
  \/ /\ Len(path) > Len(base) + 1
     /\ SubSeq(path, 1, Len(base) + 1) = base \o <<"/">>

\* s holds a '..' segment with a separator on both sides
HasParentSegment(s) ==
  \E i \in 1..Len(s) :
    /\ i + 3 <= Len(s)
    /\ s[i] \in Sep /\ s[i + 1] = "." /\ s[i + 2] = "." /\ s[i + 3] \in Sep

\* s holds two dots in a row
HasDotDot(s) == \E i \in 1..Len(s) : i < Len(s) /\ s[i] = "." /\ s[i + 1] = "."

\* s holds the text t
Holds(s, t) ==
  \E i \in 1..Len(s) : i + Len(t) - 1 <= Len(s) /\ SubSeq(s, i, i + Len(t) - 1) = t

\* the payload is markers from M, at least least of them, then a safe path
IsChain(M, least) ==
  /\ Len(payload) >= least + 1
  /\ \A i \in 1..(Len(payload) - 1) : payload[i] \in M
  /\ \E sp \in SafePaths : Text(sp) = payload[Len(payload)]

\* the safe path a chain payload ends with
PathOfChain == CHOOSE sp \in SafePaths : Text(sp) = payload[Len(payload)]

\* C1: under the default configuration, joining APP_DIR with what sanitize
\* returned gives APP_DIR itself or a path below it.
C1_JoinedStaysWithinBase ==
  (pc = "joined" /\ DefaultConfiguration) => Within(APP_DIR, joined)

\* C2: under the default configuration, what sanitize returns holds no '..'
\* segment with a separator on both sides, and no backslash.
C2_NoParentSegmentNoBackslash ==
  ReturnedByDefault =>
    /\ ~HasParentSegment(returned.chars)
    /\ \A i \in 1..Len(returned.chars) : returned.chars[i] # "\\"

\* C3: under the default configuration sanitize is idempotent: called on a
\* value it returned, it returns that value.
C3_Idempotent ==
  (ReturnedByDefault /\ calls >= 2) => returned = pathToSanitize

\* C4: under the default configuration, what sanitize returns neither starts
\* nor ends with a separator.
C4_NoLeadingOrTrailingSeparator ==
  (ReturnedByDefault /\ returned.chars # <<>>) =>
    /\ Head(returned.chars) \notin Sep
    /\ returned.chars[Len(returned.chars)] \notin Sep

\* C5: sanitize of k >= 1 repetitions of '..=%5c' followed by a safe relative
\* path p returns exactly p, holding neither '..' nor '%5c'.
C5_GluedMarkersRemoved ==
  (ReturnedByDefault /\ calls = 1 /\ IsChain({Glued}, 1)) =>
    /\ returned.chars = Canonical(PathOfChain)
    /\ ~Holds(returned.chars, Pct5c)
    /\ HasDotDot(returned.chars) => HasDotDot(Canonical(PathOfChain))

\* C6: sanitize of k >= 0 '..' segments, each followed by a run of
\* separators (plain or percent-encoded), followed by a safe relative path p
\* whose segments are joined by runs of separators, returns p with single
\* '/' separators.
C6_ChainedMarkersRemoved ==
  (ReturnedByDefault /\ calls = 1 /\ IsChain(CleanMarkers, 0)) =>
    returned.chars = Canonical(PathOfChain)

C6_Witness ==
  /\ ReturnedByDefault /\ calls = 1 /\ IsChain(CleanMarkers, 2)
  /\ Len(PathOfChain.segs) >= 2
  /\ Holds(pathToSanitize.chars, Pct5c)
  /\ returned.chars = Canonical(PathOfChain)

\* C7: under the default configuration sanitize of the empty string returns
\* the empty string.
C7_EmptyStaysEmpty ==
  (ReturnedByDefault /\ pathToSanitize = Str(<<>>)) => returned = Str(<<>>)

\* C8: sanitize changes neither the options value of its caller nor
\* DEFAULT_OPTIONS.
C8_OptionsNotMutated ==
  [][options' = options /\ DEFAULT_OPTIONS' = DEFAULT_OPTIONS]_vars

\* the options value makes sanitize fail: it is non-empty and not an object
InvalidConfiguration == Truthy(options) /\ typeof(options) # "object"

\* C9: sanitize fails, with 'options must be an object', when and only when
\* the options value is non-empty and not an object; for every other pair of
\* values it returns a string; a failing call has transformed nothing.
C9_OnlyInvalidConfigurationFails ==
  /\ pc = "thrown" =>
       /\ InvalidConfiguration
       /\ error = "Error: options must be an object"
       /\ returned = Undefined
  /\ (calls >= 1 /\ InvalidConfiguration) => pc = "thrown"
  /\ pc = "returned" => returned.type = "string"

\* the characters no step of the default pipeline reads: not a separator,
\* not a dot, not a percent sign, not disallowed
Ordinary(c) == c \notin Sep \cup NotAllowedChars \cup {".", "%"}

\* C10: under the default configuration, what sanitize returns holds none of
\* the disallowed characters; and when the path has no dot and no percent
\* sign, every other character that is not a separator is kept, in order.
C10_DisallowedRemovedOthersKept ==
  (ReturnedByDefault /\ pathToSanitize.type = "string") =>
    /\ \A i \in 1..Len(returned.chars) : returned.chars[i] \notin NotAllowedChars
    /\ (\A i \in 1..Len(pathToSanitize.chars) :
          pathToSanitize.chars[i] \notin {".", "%"})
       => SelectSeq(returned.chars, Ordinary)
            = SelectSeq(pathToSanitize.chars, Ordinary)

C10_Witness ==
  /\ ReturnedByDefault /\ pathToSanitize.type = "string"
  /\ \E i \in 1..Len(pathToSanitize.chars) :
       pathToSanitize.chars[i] \in NotAllowedChars
  /\ \E i \in 1..Len(pathToSanitize.chars) : pathToSanitize.chars[i] = "^"
  /\ \E i \in 1..Len(returned.chars) : returned.chars[i] = "^"
  /\ Len(returned.chars) < Len(pathToSanitize.chars)

====
